---- MODULE Spec2Model ----
(***************************************************************************)
(* A model of the WebSocket server library in src/websocket/websocket.go:  *)
(* the admission counter, id generator and registry (package globals), the *)
(* Upgrade call, the per-connection read loop with readFrame, the teardown *)
(* closeWebSocket, and the frame codec sendFrame / readFrame / maskData at *)
(* the level of bytes.                                                     *)
(***************************************************************************)
EXTENDS Integers, Sequences, FiniteSets, TLC

\* ------------------------------------------------------------------------
\* Program constants (websocket.go:35-45)
\* ------------------------------------------------------------------------

\* var global_frame_max_size int64 = 1024 * 1024
global_frame_max_size == 1048576

OPCODE_CONTINUATION == 0
OPCODE_TEXT == 1
OPCODE_BINARY == 2
OPCODE_CLOSE == 8
OPCODE_PING == 9
OPCODE_PONG == 10

ERROR_CODE_NORMAL_CLOSURE == 1000

\* ------------------------------------------------------------------------
\* Bounds of the model
\* ------------------------------------------------------------------------

\* var global_max_websockets int32 = 1000 in the source; the model runs the
\* admission logic against a small maximum so that the full state is reached.
global_max_websockets == 1

\* number of Upgrade calls (HTTP handler goroutines) of a run
MaxUpgrades == 2

\* frames the peers deliver in a run of Spec
MaxFrames == 1

\* frames the peer delivers to the connection in a run of SpecStream
MaxStreamFrames == 2

\* goroutines that call sendFrame on one connection in a run of SpecSend
MaxSenders == 2

\* ------------------------------------------------------------------------
\* Bytes and the bit operations the code uses on them
\* ------------------------------------------------------------------------

Byte == 0..255

RECURSIVE BitAndN(_, _, _)
BitAndN(a, b, n) ==
    IF n = 0 THEN 0
    ELSE ((a % 2) * (b % 2)) + 2 * BitAndN(a \div 2, b \div 2, n - 1)

\* a & b on bytes
BitAnd(a, b) == BitAndN(a, b, 8)

RECURSIVE BitOrN(_, _, _)
BitOrN(a, b, n) ==
    IF n = 0 THEN 0
    ELSE (IF (a % 2) + (b % 2) > 0 THEN 1 ELSE 0)
         + 2 * BitOrN(a \div 2, b \div 2, n - 1)

\* a | b on bytes
BitOr(a, b) == BitOrN(a, b, 8)

RECURSIVE BitXorN(_, _, _)
BitXorN(a, b, n) ==
    IF n = 0 THEN 0
    ELSE (((a % 2) + (b % 2)) % 2) + 2 * BitXorN(a \div 2, b \div 2, n - 1)

\* a ^ b on bytes
BitXor(a, b) == BitXorN(a, b, 8)

\* n >> k for a non-negative int
RECURSIVE Shr(_, _)
Shr(n, k) == IF k = 0 \/ n = 0 THEN n ELSE Shr(n \div 2, k - 1)

Min(a, b) == IF a < b THEN a ELSE b

\* makeStatusCodeBytes: binary.BigEndian.PutUint16(buf, code)
makeStatusCodeBytes_littleEndian(code) == << code % 256, (code \div 256) % 256 >>

makeStatusCodeBytes(code) == << (code \div 256) % 256, code % 256 >>

\* ------------------------------------------------------------------------
\* maskData (websocket.go:201-205): data[i] ^= mask_key[i%4], i from 0
\* ------------------------------------------------------------------------

maskData(mask_key, data) ==
    [i \in 1..Len(data) |-> BitXor(data[i], mask_key[((i - 1) % 4) + 1])]

\* ------------------------------------------------------------------------
\* int64 payload_len of readFrame.  TLC's integers are 32 bits wide, so the
\* 64-bit value is kept as: neg (sign bit set), big (non-negative and at
\* least 2^31), val (the value when neither).
\* ------------------------------------------------------------------------

\* int64(b2 & 0x7F) and int64(buffer[0])<<8 | int64(buffer[1])
Int64Small(v) == [neg |-> FALSE, big |-> FALSE, val |-> v]

\* int64(buffer[0])<<56 | ... | int64(buffer[7])  (websocket.go:292-293)
Int64FromBE8(buffer) ==
    LET neg == BitAnd(buffer[1], 128) = 128
        big == ~neg /\ (buffer[1] # 0 \/ buffer[2] # 0 \/ buffer[3] # 0
                        \/ buffer[4] # 0 \/ buffer[5] >= 128)
    IN  [neg |-> neg, big |-> big,
         val |-> IF neg \/ big THEN 0
                 ELSE buffer[5] * 16777216 + buffer[6] * 65536
                      + buffer[7] * 256 + buffer[8]]

\* payload_len > global_frame_max_size on int64 (signed comparison)
ExceedsMax(plen) ==
    IF plen.neg THEN FALSE
    ELSE plen.big \/ plen.val > global_frame_max_size

\* ------------------------------------------------------------------------
\* The inbound side of ws.rw (a bufio.Reader over the hijacked net.Conn).
\*   buf : the bytes bufio holds, i.e. the rest of the last conn.Read
\*   net : what further conn.Read calls will return, one chunk per call
\*   st  : "up", "eof" (the peer closed its side), "broken" (transport
\*         failure) or "closed" (ws.conn.Close() was called)
\* A read on an empty buf takes the next chunk; with no chunk it blocks
\* while the stream is up and fails otherwise.
\* ------------------------------------------------------------------------

EmptyReader == [buf |-> << >>, net |-> << >>, st |-> "up"]

\* bufio.Reader.fill, as far as one conn.Read
Fill(rw) ==
    IF rw.buf # << >> THEN [st |-> "ok", rw |-> rw]
    ELSE IF rw.net # << >>
         THEN [st |-> "ok",
               rw |-> [rw EXCEPT !.buf = Head(rw.net), !.net = Tail(rw.net)]]
    ELSE IF rw.st = "up" THEN [st |-> "block", rw |-> rw]
    ELSE [st |-> "err", rw |-> rw]

\* ws.rw.ReadByte()
ReadByte(rw) ==
    LET f == Fill(rw)
    IN  IF f.st # "ok" THEN [st |-> f.st, b |-> 0, rw |-> rw]
        ELSE [st |-> "ok", b |-> Head(f.rw.buf),
              rw |-> [f.rw EXCEPT !.buf = Tail(f.rw.buf)]]

\* ws.rw.Read(p) with len(p) = k > 0: at most one conn.Read, and then what
\* is buffered, up to k bytes
Read(rw, k) ==
    LET f == Fill(rw)
    IN  IF f.st # "ok" THEN [st |-> f.st, bytes |-> << >>, rw |-> rw]
        ELSE LET n == Min(k, Len(f.rw.buf))
             IN  [st |-> "ok", bytes |-> SubSeq(f.rw.buf, 1, n),
                  rw |-> [f.rw EXCEPT
                            !.buf = SubSeq(f.rw.buf, n + 1, Len(f.rw.buf))]]

\* the payload loop (websocket.go:310-318):
\*   for data_len < payload_len { n, err := ws.rw.Read(data[data_len:]) ... }
RECURSIVE ReadPayload(_, _, _)
ReadPayload(rw, payload_len, data) ==
    IF Len(data) >= payload_len THEN [st |-> "ok", data |-> data, rw |-> rw]
    ELSE LET r == Read(rw, payload_len - Len(data))
         IN  IF r.st # "ok" THEN [st |-> r.st, data |-> data, rw |-> rw]
             ELSE ReadPayload(r.rw, payload_len, data \o r.bytes)

\* bytes still to be read from the stream
Unread(rw) ==
    LET RECURSIVE Sum(_)
        Sum(chunks) == IF chunks = << >> THEN 0
                       ELSE Len(Head(chunks)) + Sum(Tail(chunks))
    IN  Len(rw.buf) + Sum(rw.net)

\* ------------------------------------------------------------------------
\* sendFrame (websocket.go:346-405), the bytes it writes: header, then the
\* payload (masked in place when a 4-byte key is given).  mask_key = << >>
\* stands for nil.
\* ------------------------------------------------------------------------

SendResult(err, header, payload) ==
    [err |-> err, header |-> header, payload |-> payload]

\* the 7-bit length field of b2: the length itself up to 125, 126 up to
\* 65535, 127 above (websocket.go:361-369)
LengthField_exclusive(payload_len) ==
    IF payload_len < 125 THEN payload_len
    ELSE IF payload_len <= 65535 THEN 126
    ELSE 127

LengthField(payload_len) ==
    IF payload_len <= 125 THEN payload_len
    ELSE IF payload_len <= 65535 THEN 126
    ELSE 127

sendFrameBody(opcode, mask_key, payload) ==
    LET payload_len == Len(payload)
        fin == 128
        b1 == BitOr(fin, opcode)
        has_key == Len(mask_key) = 4
        masked == IF has_key THEN 128 ELSE 0
        body == IF has_key THEN maskData(mask_key, payload) ELSE payload
        b2 == BitOr(masked, LengthField(payload_len))
        ext == IF BitAnd(b2, 127) = 126
               THEN << Shr(payload_len, 8) % 256, payload_len % 256 >>
               ELSE IF BitAnd(b2, 127) = 127
               THEN << Shr(payload_len, 56) % 256, Shr(payload_len, 48) % 256,
                       Shr(payload_len, 40) % 256, Shr(payload_len, 32) % 256,
                       Shr(payload_len, 24) % 256, Shr(payload_len, 16) % 256,
                       Shr(payload_len, 8) % 256, payload_len % 256 >>
               ELSE << >>
        header == << b1, b2 >> \o ext \o (IF has_key THEN mask_key ELSE << >>)
    IN  SendResult(FALSE, header, body)

sendFrame(opcode, mask_key, payload) ==
    IF opcode > 15 THEN SendResult(TRUE, << >>, << >>)
    ELSE sendFrameBody(opcode, mask_key, payload)

\* the bytes of one sendFrame call, as they reach the connection
FrameBytes(opcode, mask_key, payload) ==
    LET s == sendFrame(opcode, mask_key, payload)
    IN  s.header \o s.payload

\* ------------------------------------------------------------------------
\* readFrame (websocket.go:236-344) up to the dispatch: what one call does
\* to the stream and what it decodes.
\*   res    : "nil" (returns nil), "err" (returns an error), "panic" (a Go
\*            run-time panic), "block" (waits for bytes that have not come)
\*   why    : the place of the error
\*   opcode, masked, data : the locals at the dispatch (res = "nil")
\* ------------------------------------------------------------------------

FrameResult(res, why, rw, opcode, data) ==
    [res |-> res, why |-> why, rw |-> rw, opcode |-> opcode, data |-> data]

\* err != nil after a stream read: the error, or the wait
ReadFailed(st, rw) ==
    FrameResult(IF st = "block" THEN "block" ELSE "err", "transport", rw, -1, << >>)

\* opcode is one of the six the code accepts (websocket.go:254-263)
KnownOpcode(opcode) ==
    LET is_continuation == opcode = OPCODE_CONTINUATION
        is_text == opcode = OPCODE_TEXT
        is_binary == opcode = OPCODE_BINARY
        is_close == opcode = OPCODE_CLOSE
        is_ping == opcode = OPCODE_PING
        is_pong == opcode = OPCODE_PONG
    IN  is_continuation \/ is_text \/ is_binary \/ is_close \/ is_ping \/ is_pong

\* b1&0x80 == 0x80
FinSet(b1) == BitAnd(b1, 128) = 128

\* rsv1 || rsv2 || rsv3
RsvSet_onlyRsv1(b1) == BitAnd(b1, 64) = 64

RsvSet(b1) ==
    LET rsv1 == BitAnd(b1, 64) = 64
        rsv2 == BitAnd(b1, 32) = 32
        rsv3 == BitAnd(b1, 16) = 16
    IN  rsv1 \/ rsv2 \/ rsv3

\* websocket.go:300-322 : mask key, make([]byte, payload_len), payload loop,
\* unmasking
readFrameBody(rw, opcode, is_masked, payload_len) ==
    LET mk == IF is_masked THEN Read(rw, 4)
              ELSE [st |-> "ok", bytes |-> << 0, 0, 0, 0 >>, rw |-> rw]
    IN  IF mk.st # "ok" THEN ReadFailed(mk.st, mk.rw)
        ELSE IF Len(mk.bytes) # 4
        THEN FrameResult("err", "short_mask", mk.rw, -1, << >>)
        ELSE IF payload_len.neg
        THEN FrameResult("panic", "makeslice", mk.rw, -1, << >>)
        ELSE LET body == ReadPayload(mk.rw, payload_len.val, << >>)
             IN  IF body.st # "ok" THEN ReadFailed(body.st, body.rw)
                 ELSE FrameResult("nil", "", body.rw, opcode,
                                  IF is_masked THEN maskData(mk.bytes, body.data)
                                  ELSE body.data)

\* websocket.go:265-298 : second header byte, extended length, size check
readFrameLength(rw, opcode) ==
    LET r2 == ReadByte(rw)
        b2 == r2.b
        is_masked == BitAnd(b2, 128) = 128
        base == BitAnd(b2, 127)
        ext == IF base = 126 THEN Read(r2.rw, 2)
               ELSE IF base = 127 THEN Read(r2.rw, 8)
               ELSE [st |-> "ok", bytes |-> << >>, rw |-> r2.rw]
        need == IF base = 126 THEN 2 ELSE IF base = 127 THEN 8 ELSE 0
    IN  IF r2.st # "ok" THEN ReadFailed(r2.st, r2.rw)
        ELSE IF ext.st # "ok" THEN ReadFailed(ext.st, ext.rw)
        ELSE IF Len(ext.bytes) # need
        THEN FrameResult("err", "short_length", ext.rw, -1, << >>)
        ELSE LET payload_len ==
                     IF base = 126
                     THEN Int64Small(ext.bytes[1] * 256 + ext.bytes[2])
                     ELSE IF base = 127 THEN Int64FromBE8(ext.bytes)
                     ELSE Int64Small(base)
             IN  IF ExceedsMax(payload_len)
                 THEN FrameResult("err", "too_big", ext.rw, -1, << >>)
                 ELSE readFrameBody(ext.rw, opcode, is_masked, payload_len)

readFrame_ignoresClosed(rw, is_open) ==
    LET r1 == ReadByte(rw)
        b1 == r1.b
        opcode == BitAnd(b1, 15)
    IN  IF r1.st # "ok" THEN ReadFailed(r1.st, r1.rw)
        ELSE IF ~FinSet(b1)
        THEN FrameResult("err", "fragmented", r1.rw, -1, << >>)
        ELSE IF RsvSet(b1)
        THEN FrameResult("err", "rsv", r1.rw, -1, << >>)
        ELSE IF ~KnownOpcode(opcode)
        THEN FrameResult("err", "opcode", r1.rw, -1, << >>)
        ELSE readFrameLength(r1.rw, opcode)

readFrame(rw, is_open) ==
    LET r1 == ReadByte(rw)
        b1 == r1.b
        opcode == BitAnd(b1, 15)
    IN  IF r1.st # "ok" THEN ReadFailed(r1.st, r1.rw)
        ELSE IF is_open = FALSE
        THEN FrameResult("err", "closed", r1.rw, -1, << >>)
        ELSE IF ~FinSet(b1)
        THEN FrameResult("err", "fragmented", r1.rw, -1, << >>)
        ELSE IF RsvSet(b1)
        THEN FrameResult("err", "rsv", r1.rw, -1, << >>)
        ELSE IF ~KnownOpcode(opcode)
        THEN FrameResult("err", "opcode", r1.rw, -1, << >>)
        ELSE readFrameLength(r1.rw, opcode)

\* the if / else-if chain after the payload is read (websocket.go:324-341)
Dispatch(opcode) ==
    LET is_text == opcode = OPCODE_TEXT
        is_binary == opcode = OPCODE_BINARY
        is_close == opcode = OPCODE_CLOSE
        is_ping == opcode = OPCODE_PING
        is_pong == opcode = OPCODE_PONG
    IN  IF is_close THEN "close"
        ELSE IF is_ping THEN "ping"
        ELSE IF is_pong THEN "pong"
        ELSE IF is_text THEN "text"
        ELSE IF is_binary THEN "binary"
        ELSE "none"

\* ------------------------------------------------------------------------
\* The request of an Upgrade call and its checks (websocket.go:122-164)
\* ------------------------------------------------------------------------

\* strings.Contains on sequences of characters
Contains(h, sub) ==
    \E i \in 1..(Len(h) - Len(sub) + 1) : SubSeq(h, i, i + Len(sub) - 1) = sub

ValidRequest ==
    [Method |-> "GET", ProtoAtLeast11 |-> TRUE, Upgrade |-> "websocket",
     Connection |-> "Upgrade", SecFetchMode |-> "websocket",
     Version |-> << "1", "3" >>, Protocol |-> "", Extensions |-> "",
     Origin |-> "http://localhost", Key |-> "dGhlIHNhbXBsZSBub25jZQ=="]

\* validateProtocolHeader (websocket.go:89-94): an error when non-empty
validateProtocolHeader(value) == value # ""

\* validateExtensionsHeader (websocket.go:96-101): never an error
validateExtensionsHeader(value) == FALSE

\* the first failing check of makeWebSocket, "" when all pass
Validate_originBeforeProtocol(r) ==
    IF r.Method # "GET" THEN "method"
    ELSE IF r.ProtoAtLeast11 = FALSE THEN "proto"
    ELSE IF r.Upgrade # "websocket" THEN "upgrade"
    ELSE IF r.Connection # "Upgrade" THEN "connection"
    ELSE IF r.SecFetchMode # "websocket" THEN "fetch_mode"
    ELSE IF ~Contains(r.Version, << "1", "3" >>) THEN "version"
    ELSE IF r.Origin = "" THEN "origin"
    ELSE IF validateProtocolHeader(r.Protocol) THEN "protocol"
    ELSE IF validateExtensionsHeader(r.Extensions) THEN "extensions"
    ELSE IF r.Key = "" THEN "key"
    ELSE ""

Validate(r) ==
    IF r.Method # "GET" THEN "method"
    ELSE IF r.ProtoAtLeast11 = FALSE THEN "proto"
    ELSE IF r.Upgrade # "websocket" THEN "upgrade"
    ELSE IF r.Connection # "Upgrade" THEN "connection"
    ELSE IF r.SecFetchMode # "websocket" THEN "fetch_mode"
    ELSE IF ~Contains(r.Version, << "1", "3" >>) THEN "version"
    ELSE IF validateProtocolHeader(r.Protocol) THEN "protocol"
    ELSE IF validateExtensionsHeader(r.Extensions) THEN "extensions"
    ELSE IF r.Origin = "" THEN "origin"
    ELSE IF r.Key = "" THEN "key"
    ELSE ""

\* the requests the model's clients send: every field is as in the valid
\* request or not
Requests ==
    [Method : {"GET", "POST"},
     ProtoAtLeast11 : BOOLEAN,
     Upgrade : {"websocket", ""},
     Connection : {"Upgrade", "keep-alive"},
     SecFetchMode : {"websocket", ""},
     Version : {<< "1", "3" >>, << "8" >>, << "8", ",", " ", "1", "3" >>},
     Protocol : {"", "chat"},
     Extensions : {"", "permessage-deflate"},
     Origin : {"http://localhost", ""},
     Key : {"dGhlIHNhbXBsZSBub25jZQ==", ""}]

\* the requests of Spec
SysRequests ==
    { ValidRequest,
      [ValidRequest EXCEPT !.Method = "POST"],
      [ValidRequest EXCEPT !.Key = ""] }

\* ------------------------------------------------------------------------
\* The frames a peer sends (the input of readFrame), built from the frame
\* layout readFrame parses: 2 header bytes, 0, 2 or 8 length bytes, the
\* 4-byte key when masked, the payload.  A frame is described by
\*   fin, rsv, opcode : the fields of the first byte
\*   key              : << >> or the 4-byte mask key
\*   base, ext        : the 7-bit length field and the extended length bytes
\*   payload          : the payload before masking
\*   cut              : where the transport splits the frame's bytes over
\*                      two stream reads (0: one read delivers them all)
\*   origin           : "peer", or "sendFrame" for bytes sendFrame produced
\*   hdr              : the header bytes as they are on the wire
\* ------------------------------------------------------------------------

\* a byte sequence of length n, held as a tuple
Bytes(n) == SubSeq([i \in 1..n |-> (i * 7 + 3) % 256], 1, n)

\* the length field of a frame that carries n bytes, minimal as in RFC 6455
PeerBase(n) == IF n <= 125 THEN n ELSE IF n <= 65535 THEN 126 ELSE 127

PeerExt(n) ==
    IF n <= 125 THEN << >>
    ELSE IF n <= 65535 THEN << n \div 256, n % 256 >>
    ELSE << 0, 0, 0, 0, (n \div 16777216) % 256, (n \div 65536) % 256,
            (n \div 256) % 256, n % 256 >>

\* the peer's masking: octet i of the payload XOR octet (i mod 4) of the key
PeerMask(key, payload) ==
    IF key = << >> THEN payload
    ELSE [i \in 1..Len(payload) |-> BitXor(payload[i], key[((i - 1) % 4) + 1])]

RawFrame(fin, rsv, opcode, key, base, ext, payload) ==
    [origin |-> "peer", fin |-> fin, rsv |-> rsv, opcode |-> opcode, key |-> key,
     base |-> base, ext |-> ext, payload |-> payload, cut |-> 0, hdr |-> << >>]

PeerFrame(fin, rsv, opcode, key, payload) ==
    RawFrame(fin, rsv, opcode, key, PeerBase(Len(payload)), PeerExt(Len(payload)),
             payload)

NoFrame == [origin |-> "none", fin |-> 0, rsv |-> 0, opcode |-> 0, key |-> << >>,
            base |-> 0, ext |-> << >>, payload |-> << >>, cut |-> 0, hdr |-> << >>]

\* the bytes of a peer's frame on the wire
WireFrame(d) ==
    << d.fin * 128 + d.rsv * 16 + d.opcode,
       (IF d.key = << >> THEN 0 ELSE 128) + d.base >>
    \o d.ext \o d.key \o PeerMask(d.key, d.payload)

\* length of the frame's header: up to and including the mask key
HeaderLen(d) == 2 + Len(d.ext) + Len(d.key)

\* the frame's length field says exactly how many payload bytes follow
Complete(d) ==
    IF d.base <= 125 THEN d.base = Len(d.payload)
    ELSE IF d.base = 126 THEN d.ext[1] * 256 + d.ext[2] = Len(d.payload)
    ELSE /\ d.ext[1] = 0 /\ d.ext[2] = 0 /\ d.ext[3] = 0 /\ d.ext[4] = 0
         /\ d.ext[5] < 128
         /\ d.ext[5] * 16777216 + d.ext[6] * 65536 + d.ext[7] * 256 + d.ext[8]
              = Len(d.payload)

\* the stream reads that deliver the bytes: two when cut falls inside them
Chunked(bytes, cut) ==
    IF cut > 0 /\ cut < Len(bytes)
    THEN << SubSeq(bytes, 1, cut), SubSeq(bytes, cut + 1, Len(bytes)) >>
    ELSE << bytes >>

\* the stream reads that deliver bytes through a reader buffer of size n
RECURSIVE BufferChunks(_, _)
BufferChunks(bytes, n) ==
    IF Len(bytes) <= n THEN (IF bytes = << >> THEN << >> ELSE << bytes >>)
    ELSE << SubSeq(bytes, 1, n) >> \o BufferChunks(SubSeq(bytes, n + 1, Len(bytes)), n)

PeerKeys == { << >>, << 165, 90, 15, 255 >> }

\* frames of Spec: a masked Close frame with status 1001
SysFrames ==
    { PeerFrame(1, 0, OPCODE_CLOSE, << 1, 2, 3, 4 >>, << 3, 233 >>) }

\* frames of SpecCodec
GoodFrames ==
    { PeerFrame(1, 0, op, k, Bytes(n)) :
        op \in {OPCODE_CONTINUATION, OPCODE_TEXT, OPCODE_BINARY, OPCODE_CLOSE,
                OPCODE_PING, OPCODE_PONG},
        k \in PeerKeys, n \in {0, 1, 125, 126} }

FirstByteFrames ==
    { PeerFrame(fin, rsv, op, << 165, 90, 15, 255 >>, Bytes(1)) :
        fin \in {0, 1}, rsv \in {0, 1, 2, 4},
        op \in {OPCODE_CONTINUATION, OPCODE_TEXT, 3, OPCODE_PING, 11, 15} }

\* length fields that are not the minimal coding of a payload that follows
LengthFields ==
    { << 126, << 0, 5 >> >>, << 126, << 255, 255 >> >>,
      << 127, << 0, 0, 0, 0, 0, 16, 0, 0 >> >>,
      << 127, << 0, 0, 0, 0, 0, 16, 0, 1 >> >>,
      << 127, << 0, 0, 0, 1, 0, 0, 0, 0 >> >>,
      << 127, << 127, 255, 255, 255, 255, 255, 255, 255 >> >>,
      << 127, << 128, 0, 0, 0, 0, 0, 0, 0 >> >>,
      << 127, << 255, 255, 255, 255, 255, 255, 255, 255 >> >> }

LengthFrames ==
    { RawFrame(1, 0, op, k, l[1], l[2], << >>) :
        op \in {OPCODE_TEXT, OPCODE_PING}, k \in PeerKeys, l \in LengthFields }

CodecFrames == GoodFrames \cup FirstByteFrames \cup LengthFrames

\* where the transport may split a frame
Cuts == {0, 1, 3, 5, 9}

\* the inputs of sendFrame in SpecRoundTrip
SendLens == {0, 1, 5, 125, 126, 127, 65535, 65536}

SendKeys == { << >>, << 222, 173, 190, 239 >> }

\* ------------------------------------------------------------------------
\* State
\* ------------------------------------------------------------------------

\* the Upgrade calls of a run; the WebSocket an Upgrade call creates is
\* named by the call
Procs == 1..MaxUpgrades

VARIABLES
    global_websocket_count, \* atomic.Int32: the admission counter
    global_id_gen,          \* atomic.Int64: the id generator
    global_websockets,      \* sync.Map: the registry, a set of <<ID, ws>>
    up,        \* per Upgrade call: pc, the local count, the error returned,
               \*   whether incrementGlobalWebsocketCount returned true,
               \*   whether the stream was hijacked, the response written
    ws,        \* per WebSocket: ID (0: not made), is_open, the handlers set
    rw,        \* per WebSocket: the inbound stream
    out,       \* per WebSocket: the frame bytes written to the connection
    rl,        \* per WebSocket: the read loop goroutine: pc, and inside
               \*   closeWebSocket its data argument and where it returns to
    hlog,      \* per WebSocket: the handler invocations, in order
    tear,      \* per WebSocket: how often closeWebSocket was called and how
               \*   often each of its statements has run
    last,      \* per WebSocket: the last readFrame call that returned: its
               \*   number, result, locals, the frame at the head of the
               \*   stream, the bytes it took, the bytes it wrote, the
               \*   handlers it called, is_open and the stream state before
    arrived,   \* per WebSocket: the frames delivered and not yet read
    budget,    \* frames the peers may still deliver
    input,     \* the input drawn for a codec run: the arguments of the
               \*   sendFrame call (SpecRoundTrip), the peer's frame (SpecCodec),
               \*   the request (SpecRequest)
    snd,       \* per sending goroutine: its sendFrame call on the first
               \*   connection: pc, the header and the payload to write
    wbuf,      \* the bytes in the bufio.Writer of the first connection
    crashed    \* a goroutine panicked: the process is gone

vars == << global_websocket_count, global_id_gen, global_websockets, up, ws,
           rw, out, rl, hlog, tear, last, arrived, budget, input,
                    snd, wbuf, crashed >>

NoUpgrade == [pc |-> "idle", count |-> 0, err |-> "", admitted |-> FALSE,
              hijacked |-> FALSE, response |-> ""]

NoWebSocket == [ID |-> 0, is_open |-> FALSE, ReceiveTextHandler |-> FALSE,
                ReceiveBinaryHandler |-> FALSE, ClosedHandler |-> FALSE]

NoConn == [buf |-> << >>, net |-> << >>, st |-> "none"]

NoLoop == [pc |-> "none", data |-> << >>, after |-> ""]

NoTear == [calls |-> 0, marked |-> 0, deleted |-> 0, close_frames |-> 0,
           conn_closed |-> 0, decremented |-> 0, handler |-> 0, nil_handler |-> 0]

\* the goroutines that send
Senders == 1..MaxSenders

NoSend == [pc |-> "idle", header |-> << >>, payload |-> << >>]

NoInput == [opcode |-> -1, mask_key |-> << >>, payload |-> << >>]

NoCall == [n |-> 0, res |-> "", why |-> "", opcode |-> -1, data |-> << >>,
           frame |-> NoFrame, took |-> 0, wrote |-> << >>, called |-> << >>,
           was_open |-> FALSE, conn |-> ""]

Init ==
    /\ global_websocket_count = 0
    /\ global_id_gen = 0
    /\ global_websockets = {}
    /\ up = [p \in Procs |-> NoUpgrade]
    /\ ws = [p \in Procs |-> NoWebSocket]
    /\ rw = [p \in Procs |-> NoConn]
    /\ out = [p \in Procs |-> << >>]
    /\ rl = [p \in Procs |-> NoLoop]
    /\ hlog = [p \in Procs |-> << >>]
    /\ tear = [p \in Procs |-> NoTear]
    /\ last = [p \in Procs |-> NoCall]
    /\ arrived = [p \in Procs |-> << >>]
    /\ budget = MaxFrames
    /\ input = NoInput
    /\ snd = [s \in Senders |-> NoSend]
    /\ wbuf = << >>
    /\ crashed = FALSE

\* sync.Map Store and Delete on the registry
MapStore(m, k, v) == {e \in m : e[1] # k} \cup {<< k, v >>}

MapDelete(m, k) == {e \in m : e[1] # k}

\* ------------------------------------------------------------------------
\* Upgrade (websocket.go:72-87) with makeWebSocket (122-187),
\* incrementGlobalWebsocketCount (189-199) and
\* sendWebSocketHandshakeResponse (207-224), one action per step that
\* reads or writes shared state
\* ------------------------------------------------------------------------

UpgradeFails(p, err) == [up EXCEPT ![p].pc = "failed", ![p].err = err]

\* the call, and the request checks of makeWebSocket
UpgradeCall(p, r) ==
    /\ ~crashed
    /\ up[p].pc = "idle"
    /\ up' = IF Validate(r) # "" THEN UpgradeFails(p, Validate(r))
             ELSE [up EXCEPT ![p].pc = "load"]
    /\ UNCHANGED << global_websocket_count, global_id_gen, global_websockets, ws,
                    rw, out, rl, hlog, tear, last, arrived, budget, input,
                    snd, wbuf, crashed >>

\* count >= global_max_websockets
AtMaximum_off(count) == count > global_max_websockets

AtMaximum(count) == count >= global_max_websockets

\* count := global_websocket_count.Load(); if count >= max return false
AdmitLoad_addFirst(p) ==
    /\ ~crashed
    /\ up[p].pc = "load"
    /\ global_websocket_count' = global_websocket_count + 1
    /\ up' = IF AtMaximum(global_websocket_count)
             THEN UpgradeFails(p, "max_websockets")
             ELSE [up EXCEPT ![p].pc = "hijack", ![p].admitted = TRUE]
    /\ UNCHANGED << global_id_gen, global_websockets, ws,
                    rw, out, rl, hlog, tear, last, arrived, budget, input,
                    snd, wbuf, crashed >>

AdmitLoad(p) ==
    /\ ~crashed
    /\ up[p].pc = "load"
    /\ up' = IF AtMaximum(global_websocket_count)
             THEN UpgradeFails(p, "max_websockets")
             ELSE [up EXCEPT ![p].pc = "cas", ![p].count = global_websocket_count]
    /\ UNCHANGED << global_websocket_count, global_id_gen, global_websockets, ws,
                    rw, out, rl, hlog, tear, last, arrived, budget, input,
                    snd, wbuf, crashed >>

\* global_websocket_count.CompareAndSwap(count, count+1): whether it swaps
CompareAndSwapHits_always(current, old) == TRUE

CompareAndSwapHits(current, old) == current = old

AdmitCAS(p) ==
    /\ ~crashed
    /\ up[p].pc = "cas"
    /\ IF CompareAndSwapHits(global_websocket_count, up[p].count)
       THEN /\ global_websocket_count' = up[p].count + 1
            /\ up' = [up EXCEPT ![p].pc = "hijack", ![p].admitted = TRUE]
       ELSE /\ up' = [up EXCEPT ![p].pc = "load"]
            /\ UNCHANGED global_websocket_count
    /\ UNCHANGED << global_id_gen, global_websockets, ws,
                    rw, out, rl, hlog, tear, last, arrived, budget, input,
                    snd, wbuf, crashed >>

\* conn, rw, err := w.(http.Hijacker).Hijack()
Hijack(p, ok) ==
    /\ ~crashed
    /\ up[p].pc = "hijack"
    /\ IF ok
       THEN /\ up' = [up EXCEPT ![p].pc = "new_id", ![p].hijacked = TRUE]
            /\ rw' = [rw EXCEPT ![p] = EmptyReader]
       ELSE /\ up' = UpgradeFails(p, "hijack")
            /\ UNCHANGED rw
    /\ UNCHANGED << global_websocket_count, global_id_gen, global_websockets, ws,
                    out, rl, hlog, tear, last, arrived, budget, input,
                    snd, wbuf, crashed >>

\* ws := &WebSocket{ID: global_id_gen.Add(1), ..., is_open: true}
NewWebSocket_slotAsId(p) ==
    /\ ~crashed
    /\ up[p].pc = "new_id"
    /\ global_id_gen' = global_id_gen + 1
    /\ ws' = [ws EXCEPT ![p] = [NoWebSocket EXCEPT !.ID = global_websocket_count,
                                                   !.is_open = TRUE]]
    /\ up' = [up EXCEPT ![p].pc = "store"]
    /\ UNCHANGED << global_websocket_count, global_websockets,
                    rw, out, rl, hlog, tear, last, arrived, budget, input,
                    snd, wbuf, crashed >>

NewWebSocket(p) ==
    /\ ~crashed
    /\ up[p].pc = "new_id"
    /\ global_id_gen' = global_id_gen + 1
    /\ ws' = [ws EXCEPT ![p] = [NoWebSocket EXCEPT !.ID = global_id_gen + 1,
                                                   !.is_open = TRUE]]
    /\ up' = [up EXCEPT ![p].pc = "store"]
    /\ UNCHANGED << global_websocket_count, global_websockets,
                    rw, out, rl, hlog, tear, last, arrived, budget, input,
                    snd, wbuf, crashed >>

\* global_websockets.Store(ws.ID, ws); return ws, nil
StoreWebSocket(p) ==
    /\ ~crashed
    /\ up[p].pc = "store"
    /\ global_websockets' = MapStore(global_websockets, ws[p].ID, p)
    /\ up' = [up EXCEPT ![p].pc = "handshake"]
    /\ UNCHANGED << global_websocket_count, global_id_gen, ws,
                    rw, out, rl, hlog, tear, last, arrived, budget, input,
                    snd, wbuf, crashed >>

\* err = sendWebSocketHandshakeResponse(ws): the 101 response is written and
\* flushed, or the flush fails and Upgrade returns the error
Handshake(p, ok) ==
    /\ ~crashed
    /\ up[p].pc = "handshake"
    /\ up' = IF ok THEN [up EXCEPT ![p].pc = "spawn", ![p].response = "101"]
             ELSE UpgradeFails(p, "handshake")
    /\ UNCHANGED << global_websocket_count, global_id_gen, global_websockets, ws,
                    rw, out, rl, hlog, tear, last, arrived, budget, input,
                    snd, wbuf, crashed >>

\* go readLoop(ws); return ws, nil
Spawn(p) ==
    /\ ~crashed
    /\ up[p].pc = "spawn"
    /\ up' = [up EXCEPT ![p].pc = "returned"]
    /\ rl' = [rl EXCEPT ![p].pc = "read"]
    /\ UNCHANGED << global_websocket_count, global_id_gen, global_websockets, ws,
                    rw, out, hlog, tear, last, arrived, budget, input,
                    snd, wbuf, crashed >>

\* ------------------------------------------------------------------------
\* The peers
\* ------------------------------------------------------------------------

\* the peer may send once it has the 101 response, while the stream is up,
\* and sends nothing after a frame it did not complete
MaySend(p) ==
    /\ up[p].response = "101"
    /\ rw[p].st = "up"
    /\ \A i \in 1..Len(arrived[p]) : Complete(arrived[p][i])

\* the bytes of frame d reach the connection in one stream read, or in
\* two when cut falls inside them
Arrive(p, d, cut) ==
    /\ rw' = [rw EXCEPT ![p].net = @ \o Chunked(WireFrame(d), cut)]
    /\ arrived' = [arrived EXCEPT ![p] =
                     Append(@, [d EXCEPT !.cut = cut,
                                         !.hdr = SubSeq(WireFrame(d), 1, HeaderLen(d))])]

\* the peer sends frame d; the transport delivers it in one or two reads
Deliver(p, d, cut) ==
    /\ ~crashed
    /\ MaySend(p)
    /\ budget > 0
    /\ cut = 0 \/ cut < Len(WireFrame(d))
    /\ Arrive(p, d, cut)
    /\ budget' = budget - 1
    /\ UNCHANGED << global_websocket_count, global_id_gen, global_websockets, up,
                    ws, out, rl, hlog, tear, last, input, snd, wbuf, crashed >>

\* size of the reader's buffer, the most one buffered stream read returns
ReaderSize == 4096

\* the transport hands over in one stream read what the peer sent in two
\* pieces, as far as the reader's buffer takes it
Coalesce(p) ==
    /\ ~crashed
    /\ Len(rw[p].net) >= 2
    /\ Len(rw[p].net[1]) + Len(rw[p].net[2]) <= ReaderSize
    /\ rw' = [rw EXCEPT ![p].net =
                 << rw[p].net[1] \o rw[p].net[2] >> \o SubSeq(rw[p].net, 3, Len(rw[p].net))]
    /\ UNCHANGED << global_websocket_count, global_id_gen, global_websockets, up,
                    ws, out, rl, hlog, tear, last, arrived, budget, input,
                    snd, wbuf, crashed >>

\* the peer sends the frame that was drawn as the input of readFrame
Receive(p) ==
    /\ ~crashed
    /\ MaySend(p)
    /\ input # NoInput
    /\ Arrive(p, input.frame, input.cut)
    /\ input' = NoInput
    /\ UNCHANGED << global_websocket_count, global_id_gen, global_websockets, up,
                    ws, out, rl, hlog, tear, last, budget, snd, wbuf, crashed >>

\* the peer closes its side ("eof"), or the transport fails ("broken")
Disconnect(p, how) ==
    /\ ~crashed
    /\ up[p].response = "101"
    /\ rw[p].st = "up"
    /\ rw' = [rw EXCEPT ![p].st = how]
    /\ UNCHANGED << global_websocket_count, global_id_gen, global_websockets, up,
                    ws, out, rl, hlog, tear, last, arrived, budget, input,
                    snd, wbuf, crashed >>

\* sendFrame(ws, opcode, mask_key, payload) on the drawn input, with the
\* bytes it writes fed back to the connection's own reader
Loopback(p) ==
    /\ ~crashed
    /\ MaySend(p)
    /\ input # NoInput
    /\ \E s \in {sendFrame(input.opcode, input.mask_key, input.payload)} :
           /\ ~s.err
           /\ rw' = [rw EXCEPT ![p].net =
                       @ \o BufferChunks(s.header \o s.payload, ReaderSize)]
           /\ arrived' = [arrived EXCEPT ![p] =
                            Append(@, [origin |-> "sendFrame", fin |-> 1, rsv |-> 0,
                                       opcode |-> input.opcode, key |-> input.mask_key,
                                       base |-> PeerBase(Len(input.payload)),
                                       ext |-> PeerExt(Len(input.payload)),
                                       payload |-> input.payload, cut |-> 0,
                                       hdr |-> s.header])]
    /\ input' = NoInput
    /\ UNCHANGED << global_websocket_count, global_id_gen, global_websockets, up,
                    ws, out, rl, hlog, tear, last, budget, snd, wbuf, crashed >>

\* ------------------------------------------------------------------------
\* readLoop (websocket.go:226-234) and the dispatch of readFrame (324-343)
\* ------------------------------------------------------------------------

\* what a write of bytes to ws.rw followed by Flush leaves on the connection
WriteConn(p, bytes) ==
    IF rw[p].st \in {"up", "eof"} THEN out[p] \o bytes ELSE out[p]

\* the handler calls of the dispatch (websocket.go:332-341)
HandlerCalls(w, kind, data) ==
    IF kind = "text" /\ w.ReceiveTextHandler
    THEN << [h |-> "text", data |-> data] >>
    ELSE IF kind = "binary" /\ w.ReceiveBinaryHandler
    THEN << [h |-> "binary", data |-> data] >>
    ELSE << >>

\* the Pong a Ping is answered with: sendFrame(ws, OPCODE_PONG, nil, data)
PongBytes(data) == FrameBytes(OPCODE_PONG, << >>, data)

\* one iteration of readLoop: readFrame, and on an error the call of
\* closeWebSocket(ws, makeStatusCodeBytes(ERROR_CODE_NORMAL_CLOSURE))
ReadFrame(p) ==
    /\ ~crashed
    /\ rl[p].pc = "read"
    /\ \E r \in {readFrame(rw[p], ws[p].is_open)} :
       \E kind \in {IF r.res = "nil" THEN Dispatch(r.opcode) ELSE "none"} :
       \E calls \in {HandlerCalls(ws[p], kind, r.data)} :
       \E sent \in {WriteConn(p, IF kind = "ping" THEN PongBytes(r.data) ELSE << >>)} :
           /\ r.res # "block"
           /\ rw' = [rw EXCEPT ![p] = r.rw]
           /\ arrived' = [arrived EXCEPT ![p] = IF @ = << >> THEN @ ELSE Tail(@)]
           /\ crashed' = (r.res = "panic")
           /\ out' = [out EXCEPT ![p] = sent]
           /\ hlog' = [hlog EXCEPT ![p] = @ \o calls]
           /\ rl' = [rl EXCEPT ![p] =
                       IF r.res = "err"
                       THEN [pc |-> "close",
                             data |-> makeStatusCodeBytes(ERROR_CODE_NORMAL_CLOSURE),
                             after |-> "exit"]
                       ELSE IF kind = "close"
                       THEN [pc |-> "close", data |-> r.data, after |-> "read"]
                       ELSE @]
           /\ last' = [last EXCEPT ![p] =
                         [n |-> @.n + 1, res |-> r.res, why |-> r.why,
                          opcode |-> r.opcode, data |-> r.data,
                          frame |-> IF arrived[p] # << >> THEN Head(arrived[p])
                                    ELSE NoFrame,
                          took |-> Unread(rw[p]) - Unread(r.rw),
                          wrote |-> SubSeq(sent, Len(out[p]) + 1, Len(sent)),
                          called |-> calls, was_open |-> ws[p].is_open,
                          conn |-> rw[p].st]]
           /\ tear' = [tear EXCEPT ![p].calls =
                         IF r.res = "err" \/ kind = "close" THEN @ + 1 ELSE @]
    /\ UNCHANGED << global_websocket_count, global_id_gen, global_websockets, up,
                    ws, budget, input, snd, wbuf >>

\* ------------------------------------------------------------------------
\* closeWebSocket (websocket.go:109-120), one action per statement
\* ------------------------------------------------------------------------

\* if ws.is_open
CloseGuard_none(w) == TRUE

CloseGuard(w) == w.is_open

\* if ws.is_open { ws.is_open = false ... } ; otherwise the call returns
CloseMark_leavesOpen(p) ==
    /\ ~crashed
    /\ rl[p].pc = "close"
    /\ IF CloseGuard(ws[p])
       THEN /\ ws' = [ws EXCEPT ![p].is_open = TRUE]
            /\ tear' = [tear EXCEPT ![p].marked = @ + 1]
            /\ rl' = [rl EXCEPT ![p].pc = "delete"]
       ELSE /\ rl' = [rl EXCEPT ![p].pc = rl[p].after]
            /\ UNCHANGED << ws, tear >>
    /\ UNCHANGED << global_websocket_count, global_id_gen, global_websockets, up,
                    rw, out, hlog, last, arrived, budget, input,
                    snd, wbuf, crashed >>

CloseMark(p) ==
    /\ ~crashed
    /\ rl[p].pc = "close"
    /\ IF CloseGuard(ws[p])
       THEN /\ ws' = [ws EXCEPT ![p].is_open = FALSE]
            /\ tear' = [tear EXCEPT ![p].marked = @ + 1]
            /\ rl' = [rl EXCEPT ![p].pc = "delete"]
       ELSE /\ rl' = [rl EXCEPT ![p].pc = rl[p].after]
            /\ UNCHANGED << ws, tear >>
    /\ UNCHANGED << global_websocket_count, global_id_gen, global_websockets, up,
                    rw, out, hlog, last, arrived, budget, input,
                    snd, wbuf, crashed >>

\* global_websockets.Delete(ws.ID)
CloseDelete(p) ==
    /\ ~crashed
    /\ rl[p].pc = "delete"
    /\ global_websockets' = MapDelete(global_websockets, ws[p].ID)
    /\ tear' = [tear EXCEPT ![p].deleted = @ + 1]
    /\ rl' = [rl EXCEPT ![p].pc = "send"]
    /\ UNCHANGED << global_websocket_count, global_id_gen, up, ws,
                    rw, out, hlog, last, arrived, budget, input,
                    snd, wbuf, crashed >>

\* sendFrame(ws, OPCODE_CLOSE, nil, data)
CloseSend_skipsConnClose(p) ==
    /\ ~crashed
    /\ rl[p].pc = "send"
    /\ out' = [out EXCEPT ![p] = WriteConn(p, FrameBytes(OPCODE_CLOSE, << >>, rl[p].data))]
    /\ tear' = [tear EXCEPT ![p].close_frames = @ + 1]
    /\ rl' = [rl EXCEPT ![p].pc = "dec"]
    /\ UNCHANGED << global_websocket_count, global_id_gen, global_websockets, up,
                    ws, rw, hlog, last, arrived, budget, input,
                    snd, wbuf, crashed >>

CloseSend(p) ==
    /\ ~crashed
    /\ rl[p].pc = "send"
    /\ out' = [out EXCEPT ![p] = WriteConn(p, FrameBytes(OPCODE_CLOSE, << >>, rl[p].data))]
    /\ tear' = [tear EXCEPT ![p].close_frames = @ + 1]
    /\ rl' = [rl EXCEPT ![p].pc = "conn"]
    /\ UNCHANGED << global_websocket_count, global_id_gen, global_websockets, up,
                    ws, rw, hlog, last, arrived, budget, input,
                    snd, wbuf, crashed >>

\* ws.conn.Close(): what bufio holds stays readable, the rest is gone
CloseConn(p) ==
    /\ ~crashed
    /\ rl[p].pc = "conn"
    /\ rw' = [rw EXCEPT ![p].st = "closed", ![p].net = << >>]
    /\ tear' = [tear EXCEPT ![p].conn_closed = @ + 1]
    /\ rl' = [rl EXCEPT ![p].pc = "dec"]
    /\ UNCHANGED << global_websocket_count, global_id_gen, global_websockets, up,
                    ws, out, hlog, last, arrived, budget, input,
                    snd, wbuf, crashed >>

\* global_websocket_count.Add(-1)
CloseDecrement(p) ==
    /\ ~crashed
    /\ rl[p].pc = "dec"
    /\ global_websocket_count' = global_websocket_count - 1
    /\ tear' = [tear EXCEPT ![p].decremented = @ + 1]
    /\ rl' = [rl EXCEPT ![p].pc = "handler"]
    /\ UNCHANGED << global_id_gen, global_websockets, up,
                    ws, rw, out, hlog, last, arrived, budget, input,
                    snd, wbuf, crashed >>

\* if ws.ClosedHandler != nil { ws.ClosedHandler(ws) } ; the call returns
CloseNotify(p) ==
    /\ ~crashed
    /\ rl[p].pc = "handler"
    /\ hlog' = [hlog EXCEPT ![p] =
                  IF ws[p].ClosedHandler THEN Append(@, [h |-> "closed", data |-> << >>])
                  ELSE @]
    /\ tear' = [tear EXCEPT ![p].handler = @ + (IF ws[p].ClosedHandler THEN 1 ELSE 0),
                            ![p].nil_handler = @ + (IF ws[p].ClosedHandler THEN 0 ELSE 1)]
    /\ rl' = [rl EXCEPT ![p].pc = rl[p].after]
    /\ UNCHANGED << global_websocket_count, global_id_gen, global_websockets, up,
                    ws, rw, out, last, arrived, budget, input,
                    snd, wbuf, crashed >>

\* ------------------------------------------------------------------------
\* sendFrame (websocket.go:346-405) called by several goroutines on the
\* first connection, one action per call on ws.rw; the goroutines share
\* the connection's bufio.Writer and take no lock
\* ------------------------------------------------------------------------

\* the opcodes and payloads of the frames sent: SendText, SendBinary, the
\* Pong and the Close of the read loop
SendOpcodes == {OPCODE_TEXT, OPCODE_PONG}

SendPayloads == {<< 104 >>, << 104, 105 >>}

\* the call, up to the header built (websocket.go:347-390)
SendCall(s, opcode, payload) ==
    /\ ~crashed
    /\ snd[s].pc = "idle"
    /\ \E f \in {sendFrame(opcode, << >>, payload)} :
          snd' = [snd EXCEPT ![s] = [pc |-> IF f.err THEN "done" ELSE "header",
                                     header |-> f.header, payload |-> f.payload]]
    /\ UNCHANGED << global_websocket_count, global_id_gen, global_websockets, up,
                    ws, rw, out, rl, hlog, tear, last, arrived, budget, input,
                    wbuf, crashed >>

\* whether a goroutine may write to ws.rw while another is inside sendFrame
MayWrite_locked(s) == \A t \in Senders \ {s} : snd[t].pc \in {"idle", "done"}

MayWrite(s) == TRUE

\* _, err := ws.rw.Write(header)
SendHeader(s) ==
    /\ ~crashed
    /\ snd[s].pc = "header"
    /\ MayWrite(s)
    /\ wbuf' = wbuf \o snd[s].header
    /\ snd' = [snd EXCEPT ![s].pc = "payload"]
    /\ UNCHANGED << global_websocket_count, global_id_gen, global_websockets, up,
                    ws, rw, out, rl, hlog, tear, last, arrived, budget, input,
                    crashed >>

\* _, err = ws.rw.Write(payload)
SendPayload(s) ==
    /\ ~crashed
    /\ snd[s].pc = "payload"
    /\ wbuf' = wbuf \o snd[s].payload
    /\ snd' = [snd EXCEPT ![s].pc = "flush"]
    /\ UNCHANGED << global_websocket_count, global_id_gen, global_websockets, up,
                    ws, rw, out, rl, hlog, tear, last, arrived, budget, input,
                    crashed >>

\* err = ws.rw.Flush(): what the writer holds goes to the connection
SendFlush(s) ==
    /\ ~crashed
    /\ snd[s].pc = "flush"
    /\ out' = [out EXCEPT ![1] = WriteConn(1, wbuf)]
    /\ wbuf' = << >>
    /\ snd' = [snd EXCEPT ![s].pc = "done"]
    /\ UNCHANGED << global_websocket_count, global_id_gen, global_websockets, up,
                    ws, rw, rl, hlog, tear, last, arrived, budget, input,
                    crashed >>

\* the bytes a goroutine is about to write
Writing(s) == IF snd[s].pc = "header" THEN snd[s].header ELSE snd[s].payload

\* b over a: two Write calls that copied to the same place of the buffer
Overlay(a, b) ==
    [i \in 1..(IF Len(a) > Len(b) THEN Len(a) ELSE Len(b)) |->
        IF i <= Len(b) THEN b[i] ELSE a[i]]

\* two Write calls of two goroutines at the same time (a data race on the
\* bufio.Writer): both read the fill count before either advances it, both
\* copy to the same place, and the count is left as one of them set it
SendOverlap(s, t) ==
    /\ ~crashed
    /\ s # t
    /\ snd[s].pc \in {"header", "payload"}
    /\ snd[t].pc \in {"header", "payload"}
    /\ \E n \in {Len(Writing(s)), Len(Writing(t))} :
          wbuf' = wbuf \o SubSeq(Overlay(Writing(s), Writing(t)), 1, n)
    /\ snd' = [snd EXCEPT ![s].pc = IF @ = "header" THEN "payload" ELSE "flush",
                          ![t].pc = IF @ = "header" THEN "payload" ELSE "flush"]
    /\ UNCHANGED << global_websocket_count, global_id_gen, global_websockets, up,
                    ws, rw, out, rl, hlog, tear, last, arrived, budget, input,
                    crashed >>

\* ------------------------------------------------------------------------
\* Specifications
\* ------------------------------------------------------------------------

ReadLoopStep(p) ==
    \/ ReadFrame(p)
    \/ CloseMark(p)
    \/ CloseDelete(p)
    \/ CloseSend(p)
    \/ CloseConn(p)
    \/ CloseDecrement(p)
    \/ CloseNotify(p)

UpgradeStep(p) ==
    \/ \E r \in SysRequests : UpgradeCall(p, r)
    \/ AdmitLoad(p)
    \/ AdmitCAS(p)
    \/ \E ok \in BOOLEAN : Hijack(p, ok)
    \/ NewWebSocket(p)
    \/ StoreWebSocket(p)
    \/ \E ok \in BOOLEAN : Handshake(p, ok)
    \/ Spawn(p)

\* the server: concurrent Upgrade calls, the read loops of the connections
\* they make, peers that send a Close frame or disconnect
Next ==
    \E p \in Procs :
        \/ UpgradeStep(p)
        \/ ReadLoopStep(p)
        \/ \E d \in SysFrames : Deliver(p, d, 0)
        \/ Disconnect(p, "eof")

Spec == Init /\ [][Next]_vars

\* readFrame and the read loop on one frame: a frame and the way the
\* transport delivers it are drawn, and an established connection (Upgrade
\* has returned, the application has set its handlers or none) receives it
InitCodec ==
    /\ \E d \in CodecFrames, cut \in Cuts :
          /\ cut = 0 \/ cut < Len(WireFrame(d))
          /\ input = [frame |-> d, cut |-> cut]
    /\ global_websocket_count = 1
    /\ global_id_gen = 1
    /\ global_websockets = {<< 1, 1 >>}
    /\ up = [p \in Procs |->
               IF p = 1 THEN [pc |-> "returned", count |-> 0, err |-> "",
                              admitted |-> TRUE, hijacked |-> TRUE,
                              response |-> "101"]
               ELSE NoUpgrade]
    /\ \E hs \in {{}, {"text", "binary", "closed"}} :
          ws = [p \in Procs |->
                  IF p = 1 THEN [ID |-> 1, is_open |-> TRUE,
                                 ReceiveTextHandler |-> "text" \in hs,
                                 ReceiveBinaryHandler |-> "binary" \in hs,
                                 ClosedHandler |-> "closed" \in hs]
                  ELSE NoWebSocket]
    /\ rw = [p \in Procs |-> IF p = 1 THEN EmptyReader ELSE NoConn]
    /\ out = [p \in Procs |-> << >>]
    /\ rl = [p \in Procs |-> IF p = 1 THEN [NoLoop EXCEPT !.pc = "read"] ELSE NoLoop]
    /\ hlog = [p \in Procs |-> << >>]
    /\ tear = [p \in Procs |-> NoTear]
    /\ last = [p \in Procs |-> NoCall]
    /\ arrived = [p \in Procs |-> << >>]
    /\ budget = 0
    /\ snd = [s \in Senders |-> NoSend]
    /\ wbuf = << >>
    /\ crashed = FALSE

NextCodec ==
    \/ ReadLoopStep(1)
    \/ Receive(1)
    \/ \E how \in {"eof", "broken"} : Disconnect(1, how)

SpecCodec == InitCodec /\ [][NextCodec]_vars

\* the codec as a pair of functions: the arguments of one sendFrame call
\* are drawn, sendFrame is applied, and readFrame reads what it wrote
InitRoundTrip ==
    /\ \E op \in {OPCODE_TEXT, OPCODE_BINARY}, k \in SendKeys, n \in SendLens :
          input = [opcode |-> op, mask_key |-> k, payload |-> Bytes(n)]
    /\ global_websocket_count = 1
    /\ global_id_gen = 1
    /\ global_websockets = {<< 1, 1 >>}
    /\ up = [p \in Procs |->
               IF p = 1 THEN [pc |-> "returned", count |-> 0, err |-> "",
                              admitted |-> TRUE, hijacked |-> TRUE,
                              response |-> "101"]
               ELSE NoUpgrade]
    /\ \E hs \in {{}, {"text", "binary", "closed"}} :
          ws = [p \in Procs |->
                  IF p = 1 THEN [ID |-> 1, is_open |-> TRUE,
                                 ReceiveTextHandler |-> "text" \in hs,
                                 ReceiveBinaryHandler |-> "binary" \in hs,
                                 ClosedHandler |-> "closed" \in hs]
                  ELSE NoWebSocket]
    /\ rw = [p \in Procs |-> IF p = 1 THEN EmptyReader ELSE NoConn]
    /\ out = [p \in Procs |-> << >>]
    /\ rl = [p \in Procs |-> IF p = 1 THEN [NoLoop EXCEPT !.pc = "read"] ELSE NoLoop]
    /\ hlog = [p \in Procs |-> << >>]
    /\ tear = [p \in Procs |-> NoTear]
    /\ last = [p \in Procs |-> NoCall]
    /\ arrived = [p \in Procs |-> << >>]
    /\ budget = 0
    /\ snd = [s \in Senders |-> NoSend]
    /\ wbuf = << >>
    /\ crashed = FALSE

NextRoundTrip ==
    \/ Loopback(1)
    \/ ReadFrame(1)

SpecRoundTrip == InitRoundTrip /\ [][NextRoundTrip]_vars

\* frames of SpecStream: masked Text, Binary, Ping and Close frames with
\* short payloads, and an unmasked Text frame
StreamFrames ==
    { PeerFrame(1, 0, OPCODE_TEXT, << 1, 2, 3, 4 >>, << 104, 105 >>),
      PeerFrame(1, 0, OPCODE_TEXT, << >>, << 111 >>),
      PeerFrame(1, 0, OPCODE_BINARY, << 1, 2, 3, 4 >>, << 0, 255 >>),
      PeerFrame(1, 0, OPCODE_PING, << 1, 2, 3, 4 >>, << 7 >>),
      PeerFrame(1, 0, OPCODE_CLOSE, << 1, 2, 3, 4 >>, << 3, 233 >>) }

\* where the transport may split a frame of SpecStream
StreamCuts == {0, 3}

\* one established connection with its handlers set, whose peer sends a
\* stream of frames, one behind the other
InitStream ==
    /\ global_websocket_count = 1
    /\ global_id_gen = 1
    /\ global_websockets = {<< 1, 1 >>}
    /\ up = [p \in Procs |->
               IF p = 1 THEN [pc |-> "returned", count |-> 0, err |-> "",
                              admitted |-> TRUE, hijacked |-> TRUE,
                              response |-> "101"]
               ELSE NoUpgrade]
    /\ ws = [p \in Procs |->
               IF p = 1 THEN [ID |-> 1, is_open |-> TRUE,
                              ReceiveTextHandler |-> TRUE,
                              ReceiveBinaryHandler |-> TRUE,
                              ClosedHandler |-> TRUE]
               ELSE NoWebSocket]
    /\ rw = [p \in Procs |-> IF p = 1 THEN EmptyReader ELSE NoConn]
    /\ out = [p \in Procs |-> << >>]
    /\ rl = [p \in Procs |-> IF p = 1 THEN [NoLoop EXCEPT !.pc = "read"] ELSE NoLoop]
    /\ hlog = [p \in Procs |-> << >>]
    /\ tear = [p \in Procs |-> NoTear]
    /\ last = [p \in Procs |-> NoCall]
    /\ arrived = [p \in Procs |-> << >>]
    /\ budget = MaxStreamFrames
    /\ input = NoInput
    /\ snd = [s \in Senders |-> NoSend]
    /\ wbuf = << >>
    /\ crashed = FALSE

NextStream ==
    \/ ReadLoopStep(1)
    \/ \E d \in StreamFrames, cut \in StreamCuts : Deliver(1, d, cut)
    \/ Coalesce(1)
    \/ \E how \in {"eof", "broken"} : Disconnect(1, how)

SpecStream == InitStream /\ [][NextStream]_vars

\* one established connection that several goroutines send on
InitSend ==
    /\ global_websocket_count = 1
    /\ global_id_gen = 1
    /\ global_websockets = {<< 1, 1 >>}
    /\ up = [p \in Procs |->
               IF p = 1 THEN [pc |-> "returned", count |-> 0, err |-> "",
                              admitted |-> TRUE, hijacked |-> TRUE,
                              response |-> "101"]
               ELSE NoUpgrade]
    /\ ws = [p \in Procs |->
               IF p = 1 THEN [NoWebSocket EXCEPT !.ID = 1, !.is_open = TRUE]
               ELSE NoWebSocket]
    /\ rw = [p \in Procs |-> IF p = 1 THEN EmptyReader ELSE NoConn]
    /\ out = [p \in Procs |-> << >>]
    /\ rl = [p \in Procs |-> IF p = 1 THEN [NoLoop EXCEPT !.pc = "read"] ELSE NoLoop]
    /\ hlog = [p \in Procs |-> << >>]
    /\ tear = [p \in Procs |-> NoTear]
    /\ last = [p \in Procs |-> NoCall]
    /\ arrived = [p \in Procs |-> << >>]
    /\ budget = 0
    /\ input = NoInput
    /\ snd = [s \in Senders |-> NoSend]
    /\ wbuf = << >>
    /\ crashed = FALSE

NextSend ==
    \E s \in Senders :
        \/ \E opcode \in SendOpcodes, payload \in SendPayloads :
              SendCall(s, opcode, payload)
        \/ SendHeader(s)
        \/ SendPayload(s)
        \/ SendFlush(s)
        \/ \E t \in Senders : SendOverlap(s, t)

SpecSend == InitSend /\ [][NextSend]_vars

\* Upgrade on one request: a request is drawn, and concurrent Upgrade calls
\* are made with it
InitRequest ==
    /\ global_websocket_count = 0
    /\ global_id_gen = 0
    /\ global_websockets = {}
    /\ up = [p \in Procs |-> NoUpgrade]
    /\ ws = [p \in Procs |-> NoWebSocket]
    /\ rw = [p \in Procs |-> NoConn]
    /\ out = [p \in Procs |-> << >>]
    /\ rl = [p \in Procs |-> NoLoop]
    /\ hlog = [p \in Procs |-> << >>]
    /\ tear = [p \in Procs |-> NoTear]
    /\ last = [p \in Procs |-> NoCall]
    /\ arrived = [p \in Procs |-> << >>]
    /\ budget = 0
    /\ \E r \in Requests : input = [request |-> r]
    /\ snd = [s \in Senders |-> NoSend]
    /\ wbuf = << >>
    /\ crashed = FALSE

NextRequest ==
    \E p \in Procs :
        \/ UpgradeCall(p, input.request)
        \/ AdmitLoad(p)
        \/ AdmitCAS(p)
        \/ \E ok \in BOOLEAN : Hijack(p, ok)
        \/ NewWebSocket(p)
        \/ StoreWebSocket(p)
        \/ \E ok \in BOOLEAN : Handshake(p, ok)
        \/ Spawn(p)

SpecRequest == InitRequest /\ [][NextRequest]_vars

\* ------------------------------------------------------------------------
\* Properties of admission, registration and teardown (Spec; C2 under
\* SpecCodec, where the handlers are set)
\* ------------------------------------------------------------------------

\* connections whose is_open flag is set
NumOpen == Cardinality({p \in Procs : ws[p].is_open})

\* the registry holds an entry made by Upgrade call p
Registered(p) == \E e \in global_websockets : e[2] = p

RECURSIVE SumDecremented(_)
SumDecremented(n) == IF n = 0 THEN 0 ELSE tear[n].decremented + SumDecremented(n - 1)

\* closeWebSocket has run to its end on connection p exactly once
TornDown(p) ==
    /\ ~ws[p].is_open
    /\ ~Registered(p)
    /\ rw[p].st = "closed"
    /\ tear[p].marked = 1
    /\ tear[p].deleted = 1
    /\ tear[p].close_frames = 1
    /\ tear[p].conn_closed = 1
    /\ tear[p].decremented = 1
    /\ tear[p].handler + tear[p].nil_handler = 1

\* C1: the admission counter never exceeds global_max_websockets, and the
\* number of connections whose is_open flag is set never exceeds the
\* counter, however Upgrade calls and teardowns of different connections
\* interleave.
C1_CounterBounds ==
    /\ global_websocket_count <= global_max_websockets
    /\ NumOpen <= global_websocket_count

\* a connection is open at the maximum after another one was torn down
C1_Witness ==
    /\ NumOpen = global_max_websockets
    /\ global_websocket_count = global_max_websockets
    /\ \E q \in Procs : tear[q].decremented = 1

\* C2: teardown of a connection takes effect exactly once: whatever number
\* of times closeWebSocket is called on it, the connection is removed from
\* the registry once, the Close frame is sent once, the stream is closed
\* once, the counter is decremented once and the ClosedHandler, if set, is
\* called once; a later call changes nothing.
C2_TeardownOnce ==
    \A p \in Procs :
        /\ tear[p].marked <= 1
        /\ tear[p].deleted <= 1
        /\ tear[p].close_frames <= 1
        /\ tear[p].conn_closed <= 1
        /\ tear[p].decremented <= 1
        /\ tear[p].handler + tear[p].nil_handler <= 1
        /\ Len(SelectSeq(hlog[p], LAMBDA c : c.h = "closed")) = tear[p].handler
        /\ (tear[p].calls >= 1 /\ rl[p].pc \in {"read", "exit"}) => TornDown(p)

\* closeWebSocket was called twice on a connection, for a Close frame and
\* for the read error after it, and the ClosedHandler ran
C2_Witness ==
    /\ tear[1].calls = 2
    /\ rl[1].pc = "exit"
    /\ tear[1].handler = 1

\* C3: an Upgrade call that returns an error leaves no WebSocket behind:
\* no identifier was drawn for it and the registry holds no entry of it.
C3_FailedUpgradeNotRegistered ==
    \A p \in Procs :
        up[p].pc = "failed" => (ws[p].ID = 0 /\ ~Registered(p))

RequestErrors ==
    {"method", "proto", "upgrade", "connection", "fetch_mode", "version",
     "protocol", "extensions", "origin", "key"}

\* C4: an Upgrade call that fails a request check or admission leaves the
\* shared state as it found it: it has not changed the counter (the counter
\* is the number of admitted calls less the decrements of teardown), drawn
\* no identifier, registered nothing, and has neither hijacked the stream
\* nor written a response.
C4_RejectedCallLeavesNoTrace ==
    /\ global_websocket_count
         = Cardinality({p \in Procs : up[p].admitted}) - SumDecremented(MaxUpgrades)
    /\ global_id_gen = Cardinality({p \in Procs : ws[p].ID # 0})
    /\ \A p \in Procs :
          (up[p].pc = "failed" /\ up[p].err \in RequestErrors \cup {"max_websockets"})
          => /\ ~up[p].admitted
             /\ ~up[p].hijacked
             /\ up[p].response = ""
             /\ ws[p] = NoWebSocket
             /\ ~Registered(p)
             /\ rw[p] = NoConn
             /\ out[p] = << >>
             /\ rl[p] = NoLoop

\* a call was refused admission while the maximum number of connections
\* was open
C4_Witness ==
    /\ NumOpen = global_max_websockets
    /\ \E p \in Procs : up[p].pc = "failed" /\ up[p].err = "max_websockets"

\* Upgrade call p takes a step of incrementGlobalWebsocketCount
AdmissionStep(p) == up[p].pc \in {"load", "cas"} /\ up'[p] # up[p]

\* call p holds a slot of the counter: admitted, and teardown has not yet
\* passed the decrement
SlotHeld(p) ==
    up[p].admitted /\ ~(tear[p].conn_closed >= 1 /\ rl[p].pc # "dec")

\* C5: while global_max_websockets connections are open, an Upgrade call
\* leaves admission only by failing with the admission error and the open
\* connections stay as they are; when fewer slots than the maximum are
\* held, as after a teardown has completed, the call passes the check of
\* the maximum and is not refused.
C5_AdmissionAtMaximum ==
    [][\A p \in Procs :
          AdmissionStep(p) =>
             /\ NumOpen = global_max_websockets =>
                   /\ up'[p].pc = IF up[p].pc = "load" THEN "failed" ELSE "load"
                   /\ up[p].pc = "load" => up'[p].err = "max_websockets"
                   /\ ws' = ws
             /\ Cardinality({q \in Procs : SlotHeld(q)}) < global_max_websockets =>
                   /\ up'[p].pc # "failed"
                   /\ up[p].pc = "load" => up'[p].pc = "cas"]_vars

\* an Upgrade call succeeded after the teardown of another connection had
\* released its slot
C5_Witness ==
    \E p, q \in Procs :
        /\ p # q
        /\ tear[q].decremented = 1
        /\ up[p].pc = "returned"
        /\ ws[p].is_open
        /\ global_websocket_count = global_max_websockets

\* ------------------------------------------------------------------------
\* Properties of the frame codec (SpecCodec, SpecRoundTrip)
\* ------------------------------------------------------------------------

\* the last readFrame call of connection p read a frame the peer sent while
\* the connection was open
ReadPeerFrame(p) ==
    /\ last[p].n > 0
    /\ last[p].was_open
    /\ last[p].frame.origin = "peer"

\* the read loop is in, or has finished, the teardown that follows an error
TearsDown(p) ==
    /\ rl[p].pc \in {"close", "delete", "send", "conn", "dec", "handler", "exit"}
    /\ rl[p].after = "exit"
    /\ rl[p].pc = "exit" => TornDown(p)

DefinedOpcodes ==
    {OPCODE_CONTINUATION, OPCODE_TEXT, OPCODE_BINARY, OPCODE_CLOSE, OPCODE_PING,
     OPCODE_PONG}

\* the first byte passes the checks of FIN, RSV and the opcode
FirstByteAccepted(d) == d.fin = 1 /\ d.rsv = 0 /\ d.opcode \in DefinedOpcodes

\* C6: a frame received on an open connection with FIN = 0, or an RSV bit
\* set, or an opcode that is not one of the six defined makes readFrame
\* return an error; the read loop tears the connection down, no handler is
\* called and nothing is written for the frame before the teardown.
C6_BadFirstByteRejected ==
    \A p \in Procs :
        (ReadPeerFrame(p) /\ ~FirstByteAccepted(last[p].frame))
        => /\ last[p].res = "err"
           /\ last[p].called = << >>
           /\ last[p].wrote = << >>
           /\ TearsDown(p)

\* a frame with FIN set, no RSV bit and opcode 3 was rejected and the
\* teardown has finished, with the handlers set
C6_Witness ==
    /\ ReadPeerFrame(1)
    /\ last[1].frame.fin = 1
    /\ last[1].frame.rsv = 0
    /\ last[1].frame.opcode = 3
    /\ ws[1].ReceiveTextHandler
    /\ rl[1].pc = "exit"

\* the length field of the frame, read as an unsigned number, is above
\* global_frame_max_size
DeclaresTooMuch(d) ==
    /\ d.base = 127
    /\ \/ d.ext[1] # 0 \/ d.ext[2] # 0 \/ d.ext[3] # 0 \/ d.ext[4] # 0
       \/ d.ext[5] * 16777216 + d.ext[6] * 65536 + d.ext[7] * 256 + d.ext[8]
            > global_frame_max_size

\* C7: a frame whose length field, in whichever tier and with whatever
\* most significant bit, declares more than global_frame_max_size makes
\* readFrame return an error without reading any payload; the connection
\* is torn down and no handler is called.
C7_OversizeRejected ==
    \A p \in Procs :
        (/\ ReadPeerFrame(p)
         /\ FirstByteAccepted(last[p].frame)
         /\ DeclaresTooMuch(last[p].frame))
        => /\ last[p].res = "err"
           /\ last[p].took <= HeaderLen(last[p].frame)
           /\ last[p].called = << >>
           /\ TearsDown(p)

\* C8: a frame with opcode Continuation, whatever its FIN bit and payload,
\* makes readFrame return an error and the read loop tear the connection
\* down.
C8_ContinuationRejected ==
    \A p \in Procs :
        (ReadPeerFrame(p) /\ last[p].frame.opcode = OPCODE_CONTINUATION)
        => (last[p].res = "err" /\ TearsDown(p))

\* a Pong frame as RFC 6455 lays it out: FIN, opcode 0xA, no mask, the
\* minimal length field, the payload
ExpectedPong(payload) ==
    << 128 + OPCODE_PONG, PeerBase(Len(payload)) >> \o PeerExt(Len(payload))
    \o payload

\* C9: a Ping frame received whole on an open connection whose stream
\* still takes writes is answered by exactly one Pong frame that carries
\* the unmasked payload of the Ping; no handler is called and the
\* connection stays open.
C9_PingAnsweredByPong ==
    \A p \in Procs :
        (/\ ReadPeerFrame(p)
         /\ last[p].frame.fin = 1
         /\ last[p].frame.rsv = 0
         /\ last[p].frame.opcode = OPCODE_PING
         /\ Complete(last[p].frame)
         /\ last[p].conn # "broken")
        => /\ last[p].res = "nil"
           /\ last[p].wrote = ExpectedPong(last[p].frame.payload)
           /\ last[p].called = << >>
           /\ hlog[p] = << >>
           /\ ws[p].is_open
           /\ rl[p].pc = "read"
           /\ tear[p] = NoTear

\* the header sendFrame is to write: FIN and the opcode, the mask bit and
\* the length field of the tier, the extended length, the key
ExpectedHeader(d) ==
    << 128 + d.opcode,
       (IF d.key = << >> THEN 0 ELSE 128) + PeerBase(Len(d.payload)) >>
    \o PeerExt(Len(d.payload)) \o d.key

\* C10: readFrame decodes the bytes sendFrame wrote for a Text or Binary
\* payload, with no mask key or a 4-byte key, into the opcode and exactly
\* the payload, and hands it to the handler that is set; the header uses
\* the inline length up to 125, the 16-bit length from 126 to 65535 and the
\* 64-bit length above.
C10_RoundTrip ==
    \A p \in Procs :
        /\ \A i \in 1..Len(arrived[p]) :
              arrived[p][i].origin = "sendFrame"
              => arrived[p][i].hdr = ExpectedHeader(arrived[p][i])
        /\ (last[p].n > 0 /\ last[p].frame.origin = "sendFrame")
           => /\ last[p].frame.hdr = ExpectedHeader(last[p].frame)
              /\ last[p].res = "nil"
              /\ last[p].opcode = last[p].frame.opcode
              /\ last[p].data = last[p].frame.payload
              /\ last[p].took = Len(last[p].frame.hdr) + Len(last[p].frame.payload)
              /\ ws[p].ReceiveTextHandler
                 => last[p].called
                      = << [h |-> IF last[p].opcode = OPCODE_TEXT THEN "text"
                                  ELSE "binary",
                            data |-> last[p].frame.payload] >>

\* a masked frame of 126 bytes, the first length of the 16-bit tier, went
\* through sendFrame and readFrame
C10_Witness ==
    /\ last[1].n > 0
    /\ last[1].frame.origin = "sendFrame"
    /\ last[1].frame.key # << >>
    /\ Len(last[1].frame.payload) = 126
    /\ last[1].res = "nil"
    /\ last[1].called # << >>

\* ------------------------------------------------------------------------
\* Properties of the read loop on a stream of frames (SpecStream)
\* ------------------------------------------------------------------------

\* the calls of the text and binary handlers in a handler log
Messages(log) == SelectSeq(log, LAMBDA c : c.h \in {"text", "binary"})

\* connection p's read loop takes the frame at the head of its stream
ReadsHead(p) ==
    /\ last'[p].n = last[p].n + 1
    /\ arrived[p] # << >>

\* C11: the text and binary handlers of a connection are called in the
\* order in which its Text and Binary frames arrived: the read of a Text or
\* Binary frame at the head of the stream of an open connection appends
\* exactly the call of that frame's handler with that frame's payload, and
\* no other step changes the calls made.
C11_HandlersInArrivalOrder ==
    [][\A p \in Procs :
          IF /\ ReadsHead(p)
             /\ ws[p].is_open
             /\ Head(arrived[p]).opcode \in {OPCODE_TEXT, OPCODE_BINARY}
          THEN Messages(hlog'[p])
                 = Append(Messages(hlog[p]),
                          [h |-> IF Head(arrived[p]).opcode = OPCODE_TEXT
                                 THEN "text" ELSE "binary",
                           data |-> Head(arrived[p]).payload])
          ELSE Messages(hlog'[p]) = Messages(hlog[p])]_vars

\* ------------------------------------------------------------------------
\* Properties of the request checks (SpecRequest)
\* ------------------------------------------------------------------------

\* the request checks in their documented order, each with whether request
\* r fails it
DocumentedChecks(r) ==
    << << "method", r.Method # "GET" >>,
       << "proto", ~r.ProtoAtLeast11 >>,
       << "upgrade", r.Upgrade # "websocket" >>,
       << "connection", r.Connection # "Upgrade" >>,
       << "fetch_mode", r.SecFetchMode # "websocket" >>,
       << "version", ~Contains(r.Version, << "1", "3" >>) >>,
       << "protocol", r.Protocol # "" >>,
       << "extensions", FALSE >>,
       << "origin", r.Origin = "" >>,
       << "key", r.Key = "" >> >>

\* the indices of the checks request r fails
Failing(r) == {i \in DOMAIN DocumentedChecks(r) : DocumentedChecks(r)[i][2]}

\* the first of them
FirstFailing(r) == CHOOSE i \in Failing(r) : \A j \in Failing(r) : i <= j

\* C12: an Upgrade call on a request that fails a check returns the error
\* of the first check, in the documented order, that the request fails, and
\* has not touched the admission counter; a call reaches admission (is
\* admitted, or refused for the maximum) only on a request that passes
\* every check, and the counter is the number of admitted calls.
C12_FirstFailingCheckWins ==
    /\ global_websocket_count = Cardinality({p \in Procs : up[p].admitted})
    /\ \A p \in Procs :
          up[p].pc # "idle" =>
             IF Failing(input.request) # {}
             THEN /\ up[p].pc = "failed"
                  /\ up[p].err
                       = DocumentedChecks(input.request)[FirstFailing(input.request)][1]
                  /\ ~up[p].admitted
             ELSE up[p].err \notin RequestErrors

\* a request with a subprotocol, an extensions header and no origin was
\* refused for its subprotocol
C12_Witness ==
    /\ input.request.Protocol # ""
    /\ input.request.Extensions # ""
    /\ input.request.Origin = ""
    /\ \E p \in Procs : up[p].err = "protocol"

\* ------------------------------------------------------------------------
\* Properties of identifiers and of the lifecycle (Spec)
\* ------------------------------------------------------------------------

\* the identifiers drawn so far, of open and of closed connections
IdsDrawn == {ws[p].ID : p \in {q \in Procs : ws[q].ID # 0}}

C14_LifecycleOnlyForward ==
    [][/\ \A p \in Procs :
            /\ (ws[p].ID # 0 /\ ~ws[p].is_open) => ~ws'[p].is_open
            /\ tear'[p].marked >= 1 => ~ws'[p].is_open
            /\ tear[p].deleted >= 1 => ~Registered(p)'
            /\ tear[p].marked >= 1 => up'[p].admitted = up[p].admitted
       /\ global_websocket_count' > global_websocket_count
            => \E q \in Procs : /\ ~up[q].admitted /\ up'[q].admitted
                                /\ ws[q].ID = 0 /\ tear[q].marked = 0]_vars

\* a connection was torn down on a Close frame, its read loop has called
\* readFrame again and has exited, and a later call holds the slot
C14_Witness ==
    \E p, q \in Procs :
        /\ TornDown(p) /\ rl[p].pc = "exit" /\ last[p].n >= 2
        /\ ws[q].is_open /\ Registered(q)

\* ------------------------------------------------------------------------
\* Properties of teardown on a stream of frames (SpecStream)
\* ------------------------------------------------------------------------

\* the Closed handler of connection p has been called
ClosedHandlerCalled(p) == \E i \in DOMAIN hlog[p] : hlog[p][i].h = "closed"

\* C15: teardown performs its steps in the order mark, remove from the
\* registry, send the Close frame, close the stream, decrement the counter,
\* call the Closed handler: in every state each step has happened only if
\* the one before it has, so the counter is not decremented before the
\* stream is closed and the Closed handler runs only after the decrement.
C15_TeardownOrder ==
    \A p \in Procs :
        ws[p].ID # 0 =>
           /\ ~Registered(p) => ~ws[p].is_open
           /\ tear[p].close_frames >= 1 => ~Registered(p)
           /\ rw[p].st = "closed" => tear[p].close_frames >= 1
           /\ tear[p].decremented >= 1 => rw[p].st = "closed"
           /\ ClosedHandlerCalled(p)
                => /\ tear[p].decremented >= 1
                   /\ global_websocket_count = 0

\* a teardown has run to the call of the Closed handler
C15_Witness ==
    \E p \in Procs : ClosedHandlerCalled(p) /\ TornDown(p)

\* a step in which the teardown of connection p writes its Close frame to
\* a stream that still takes writes
CloseFrameWritten(p) ==
    /\ tear'[p].close_frames = tear[p].close_frames + 1
    /\ rw[p].st \in {"up", "eof"}

\* the bytes a step writes to the stream of connection p
Written(p) == SubSeq(out'[p], Len(out[p]) + 1, Len(out'[p]))

\* an unmasked Close frame with the given body
ExpectedClose(body) ==
    << 128 + OPCODE_CLOSE, PeerBase(Len(body)) >> \o PeerExt(Len(body)) \o body

\* C16 as stated: every teardown, whatever triggered it, sends a Close
\* frame whose body is the status code 1000, the bytes 0x03 0xE8 (seen on
\* the stream when the stream still takes writes).
C16_EveryCloseBodyNormalClosure ==
    [][\A p \in Procs :
          CloseFrameWritten(p) => Written(p) = ExpectedClose(<< 3, 232 >>)]_vars

\* C16 amended: on a stream that still takes writes, a teardown triggered
\* by an error of readFrame sends a Close frame whose body is the status
\* code 1000, the bytes 0x03 0xE8; a teardown triggered by a Close frame
\* that readFrame decoded sends a Close frame whose body is the payload
\* decoded from that frame.
C16_CloseBodyByTrigger ==
    [][\A p \in Procs :
          CloseFrameWritten(p) =>
             IF last[p].res = "err"
             THEN Written(p) = ExpectedClose(<< 3, 232 >>)
             ELSE /\ last[p].res = "nil"
                  /\ last[p].opcode = OPCODE_CLOSE
                  /\ Written(p) = ExpectedClose(last[p].data)]_vars

\* a teardown triggered by a decode error of readFrame, with the frame's
\* bytes at hand, has written its Close frame
C16_Witness ==
    \E p \in Procs :
        /\ last[p].res = "err"
        /\ last[p].frame # NoFrame
        /\ tear[p].close_frames = 1
        /\ out[p] # << >>

\* C17: a Close frame received on an open connection begins teardown, and
\* the Close frame that teardown sends (on a stream that still takes
\* writes) is unmasked and carries exactly the payload of the received
\* frame, unmasked.
C17_CloseEchoesPayload ==
    [][\A p \in Procs :
          /\ (/\ ReadsHead(p)
              /\ ws[p].is_open
              /\ FirstByteAccepted(Head(arrived[p]))
              /\ Head(arrived[p]).opcode = OPCODE_CLOSE)
               => tear'[p].calls = tear[p].calls + 1
          /\ (/\ CloseFrameWritten(p)
              /\ last[p].was_open
              /\ last[p].frame # NoFrame
              /\ FirstByteAccepted(last[p].frame)
              /\ last[p].frame.opcode = OPCODE_CLOSE)
               => Written(p) = ExpectedClose(last[p].frame.payload)]_vars

\* ------------------------------------------------------------------------
\* Properties of concurrent sends (SpecSend)
\* ------------------------------------------------------------------------

\* the whole frame of the call of goroutine s
WholeFrame(s) == snd[s].header \o snd[s].payload

\* the concatenations of the whole frames of the goroutines in S, in every
\* order
RECURSIVE Concatenations(_)
Concatenations(S) ==
    IF S = {} THEN {<< >>}
    ELSE UNION {{WholeFrame(s) \o c : c \in Concatenations(S \ {s})} : s \in S}

\* C18: sendFrame does not serialise senders: while one goroutine is
\* between the write of its header and the write of its payload, any other
\* goroutine that has called sendFrame on the same connection can write its
\* header.
C18_SendersNotSerialised ==
    \A s, t \in Senders :
        (s # t /\ snd[s].pc = "payload" /\ snd[t].pc = "header")
        => ENABLED SendHeader(t)

\* two sends have returned, and the bytes on the stream are one frame's
\* header, the other's header, then the two payloads: not a concatenation
\* of whole frames
C18_Witness ==
    \E s, t \in Senders :
        /\ s # t
        /\ snd[s].pc = "done" /\ snd[t].pc = "done"
        /\ out[1] = snd[s].header \o snd[t].header \o snd[s].payload \o snd[t].payload
        /\ out[1] \notin Concatenations({s, t})

\* ------------------------------------------------------------------------
\* Properties of readFrame on split deliveries (SpecCodec)
\* ------------------------------------------------------------------------

\* the handler calls the dispatch of frame d makes on connection p
ExpectedCalls(p, d) ==
    IF d.opcode = OPCODE_TEXT /\ ws[p].ReceiveTextHandler
    THEN << [h |-> "text", data |-> d.payload] >>
    ELSE IF d.opcode = OPCODE_BINARY /\ ws[p].ReceiveBinaryHandler
    THEN << [h |-> "binary", data |-> d.payload] >>
    ELSE << >>

\* C19: a well-formed frame within the size limit, received on an open
\* connection, is decoded to its opcode and its unmasked payload and
\* dispatched accordingly however the stream splits its bytes: readFrame
\* returns no error, has read exactly the bytes of the frame, and has called
\* the handler of a Text or Binary frame with the payload.
C19_SplitDeliveryDecoded ==
    \A p \in Procs :
        (/\ ReadPeerFrame(p)
         /\ FirstByteAccepted(last[p].frame)
         /\ Complete(last[p].frame)
         /\ ~DeclaresTooMuch(last[p].frame))
        => /\ last[p].res = "nil"
           /\ last[p].opcode = last[p].frame.opcode
           /\ last[p].data = last[p].frame.payload
           /\ last[p].took = HeaderLen(last[p].frame) + Len(last[p].frame.payload)
           /\ last[p].called = ExpectedCalls(p, last[p].frame)

\* ------------------------------------------------------------------------
\* Properties of the read loop after teardown (SpecStream)
\* ------------------------------------------------------------------------

\* C20: a readFrame call made when the connection is no longer open, with
\* whatever bytes are still buffered, returns an error, calls no handler
\* and writes nothing; the read loop then leaves through a closeWebSocket
\* call that does nothing: the connection stays marked, unregistered,
\* closed and released exactly once.
C20_NothingDispatchedAfterTeardown ==
    \A p \in Procs :
        (last[p].n > 0 /\ ~last[p].was_open)
        => /\ last[p].res = "err"
           /\ last[p].called = << >>
           /\ last[p].wrote = << >>
           /\ rl[p].pc \in {"close", "exit"}
           /\ rl[p].after = "exit"
           /\ TornDown(p)

\* after the teardown on a Close frame the read loop found the bytes of a
\* further frame in its buffer, and has exited
C20_Witness ==
    \E p \in Procs :
        /\ last[p].n > 0 /\ ~last[p].was_open
        /\ last[p].took = 1
        /\ last[p].frame # NoFrame
        /\ rl[p].pc = "exit"

====
